---- MODULE Spec2Model ----
(***************************************************************************)
(* Model of src/vs/editor/contrib/rtv/remote/RTVUtils.ts: the remote       *)
(* processes (RunpyProcess, ImgSummaryProcess, SynthProcess) multiplexed   *)
(* over the single pyodide web worker, the id generator, and the worker    *)
(* init listener that opens the readiness gate.                            *)
(*                                                                         *)
(* JavaScript runs every handler to completion on one thread, so each      *)
(* action below is one whole handler or one whole API call.                *)
(***************************************************************************)
EXTENDS Integers, Sequences, FiniteSets, TLC

(***************************************************************************)
(* Bounds of the model.                                                    *)
(***************************************************************************)
\* processes constructed (placeholders included)
MaxProcs == 2
\* steps taken: host calls and envelopes delivered together
MaxSteps == 5
\* distinct callbacks the host may register
MaxFns == 1
\* steps explored from the state with one run-program process (SpecRun)
MaxRunSteps == 4

(***************************************************************************)
(* Values.                                                                 *)
(***************************************************************************)
\* enum ResponseType
STDOUT == 1
STDERR == 2
RESULT == 3
EXCEPTION == 4
ERROR == 5
LOADED == 6

ResponseType == {STDOUT, STDERR, RESULT, EXCEPTION, ERROR, LOADED}

\* enum RequestType
RUNPY == 1
IMGSUM == 2

\* the texts an envelope may carry: the empty string and two distinct letters
Texts == {"", "a", "b"}

\* the id field of an envelope that answers no request (LOADED, ERROR)
NoId == -1

\* an optional string field: undefined, or a string
Undefined == <<>>
Some(s) == <<s>>

\* an unset callback field
NoFn == 0
\* the callbacks the host registers
Fns == 1 .. MaxFns
\* the callback the init listener passes to onExit
BootFn == -1

\* first argument of the exit callback
StatusOk == 0
StatusFail == 1
StatusNull == -2

\* the index of pyodideWorkerInitListener in the worker's listener set;
\* the eventListener of the i-th constructed process has index i
InitL == 0

\* PyodideWorkerResponse
PyodideWorkerResponse(id, type, msg) == [id |-> id, type |-> type, msg |-> msg]

\* RunpyWorkerRequest / ImgSumWorkerRequest (the program text is opaque)
RunpyWorkerRequest(id) == [id |-> id, type |-> RUNPY]
ImgSumWorkerRequest(id) == [id |-> id, type |-> IMGSUM]

VARIABLES
    next,            \* idGen.next
    pyodideLoaded,   \* the readiness flag
    listeners,       \* 'message' listeners registered on pyodideWorker
    procs,           \* the processes constructed so far, in construction order
    posted,          \* requests posted to the worker, in order
    sent,            \* history: per request id, what the worker has delivered for it
    lifecycle,       \* history: LOADED envelopes delivered, and envelopes the
                     \* init listener rejected (and logged to the console)
    notified,        \* calls of IRTVController.runProgram() by the bootstrap callback
    steps            \* steps taken so far

vars == <<next, pyodideLoaded, listeners, procs, posted, sent, lifecycle, notified, steps>>

(***************************************************************************)
(* Observer invocations.  Each process carries the log of the calls made   *)
(* to the callbacks registered on it, in the order they were made.         *)
(***************************************************************************)
OutCall(fn, data) == [obs |-> "stdout", fn |-> fn, data |-> data]
ErrCall(fn, data) == [obs |-> "stderr", fn |-> fn, data |-> data]
ExitCall(fn, status, data) == [obs |-> "exit", fn |-> fn, status |-> status, data |-> data]

\* JavaScript truthiness of an optional string: defined and not ''
Truthy(r) == r # Undefined /\ r[1] # ""

\* the fields of a process object right after its field initialisers ran
NewProcess(kind, id) ==
    [kind |-> kind, id |-> id,
     onResult |-> NoFn, onOutput |-> NoFn, onError |-> NoFn,
     result |-> Undefined, error |-> "", output |-> "",
     killed |-> FALSE,
     killCalled |-> FALSE,   \* history: kill() was called on the object
     held |-> FALSE,         \* history: the host was handed the object
     calls |-> <<>>]         \* history: the callback invocations

(***************************************************************************)
(* class IDGenerator                                                       *)
(***************************************************************************)
\* getId() that forgets the increment
getId_NoIncrement(n) == [id |-> n, next |-> n]

\* getId(): return this.next++  -- the value returned and the new counter
getId(n) == [id |-> n, next |-> n + 1]

(***************************************************************************)
(* class RunpyProcess                                                      *)
(***************************************************************************)
\* the closure calling fn before the stdout and stderr observers
RunpyOnResult_ExitFirst(p, result) ==
    [p EXCEPT !.calls =
        @ \o <<ExitCall(p.onResult, IF result # "" THEN StatusOk ELSE StatusNull, result)>>
          \o (IF p.onOutput # NoFn THEN <<OutCall(p.onOutput, p.output)>> ELSE <<>>)
          \o (IF p.onError # NoFn THEN <<ErrCall(p.onError, p.error)>> ELSE <<>>)]

\* the closure onExit stores in this.onResult, applied to a result string
RunpyOnResult(p, result) ==
    [p EXCEPT !.calls =
        @ \o (IF p.onOutput # NoFn THEN <<OutCall(p.onOutput, p.output)>> ELSE <<>>)
          \o (IF p.onError # NoFn THEN <<ErrCall(p.onError, p.error)>> ELSE <<>>)
          \o <<ExitCall(p.onResult, IF result # "" THEN StatusOk ELSE StatusNull, result)>>]

\* the listener without the test of msg.id
RunpyEventListener_NoFilter(p, msg) ==
    CASE msg.type = RESULT ->
            LET q == [p EXCEPT !.result = Some(msg.msg)]
            IN  IF q.onResult # NoFn THEN RunpyOnResult(q, msg.msg) ELSE q
      [] msg.type = STDOUT -> [p EXCEPT !.output = @ \o msg.msg]
      [] msg.type \in {STDERR, EXCEPTION} -> [p EXCEPT !.error = @ \o msg.msg]
      [] OTHER -> p

\* the listener forwarding stdout at once, as ImgSummaryProcess does
RunpyEventListener_Streams(p, msg) ==
    IF msg.id # p.id THEN p
    ELSE CASE msg.type = RESULT ->
                LET q == [p EXCEPT !.result = Some(msg.msg)]
                IN  IF q.onResult # NoFn THEN RunpyOnResult(q, msg.msg) ELSE q
           [] msg.type = STDOUT ->
                LET q == [p EXCEPT !.output = @ \o msg.msg]
                IN  IF q.onOutput # NoFn
                    THEN [q EXCEPT !.calls = Append(@, OutCall(q.onOutput, msg.msg))]
                    ELSE q
           [] msg.type \in {STDERR, EXCEPTION} -> [p EXCEPT !.error = @ \o msg.msg]
           [] OTHER -> p

\* the listener putting new stdout text in front of the buffer
RunpyEventListener_Prepends(p, msg) ==
    IF msg.id # p.id THEN p
    ELSE CASE msg.type = RESULT ->
                LET q == [p EXCEPT !.result = Some(msg.msg)]
                IN  IF q.onResult # NoFn THEN RunpyOnResult(q, msg.msg) ELSE q
           [] msg.type = STDOUT -> [p EXCEPT !.output = msg.msg \o @]
           [] msg.type \in {STDERR, EXCEPTION} -> [p EXCEPT !.error = @ \o msg.msg]
           [] OTHER -> p

\* this.eventListener
RunpyEventListener(p, msg) ==
    IF msg.id # p.id THEN p
    ELSE CASE msg.type = RESULT ->
                LET q == [p EXCEPT !.result = Some(msg.msg)]
                IN  IF q.onResult # NoFn THEN RunpyOnResult(q, msg.msg) ELSE q
           [] msg.type = STDOUT -> [p EXCEPT !.output = @ \o msg.msg]
           [] msg.type \in {STDERR, EXCEPTION} -> [p EXCEPT !.error = @ \o msg.msg]
           [] OTHER -> p

RunpyOnStdout(p, fn) == [p EXCEPT !.onOutput = fn]

RunpyOnStderr(p, fn) == [p EXCEPT !.onError = fn]

\* kill(), the fields of the object (the listener is removed by the action)
RunpyKill(p) ==
    LET q == [p EXCEPT !.killed = TRUE, !.killCalled = TRUE]
    IN  IF q.onResult # NoFn THEN RunpyOnResult(q, "") ELSE q

RunpyOnExit(p, fn) ==
    LET q == [p EXCEPT !.onResult = fn]
    IN  IF Truthy(q.result) THEN RunpyOnResult(q, q.result[1])
        ELSE IF q.killed THEN RunpyOnResult(q, "")
        ELSE q

(***************************************************************************)
(* class ImgSummaryProcess                                                 *)
(***************************************************************************)
\* the closure reporting failure as RunpyProcess does, with null
ImgOnResult_NullStatus(p, result) ==
    [p EXCEPT !.calls =
        @ \o <<ExitCall(p.onResult, IF result # "" THEN StatusOk ELSE StatusNull, result)>>]

\* the closure onExit stores in this.onResult, applied to a result string
ImgOnResult(p, result) ==
    [p EXCEPT !.calls =
        @ \o <<ExitCall(p.onResult, IF result # "" THEN StatusOk ELSE StatusFail, result)>>]

\* this.eventListener forwarding the whole buffer instead of the new chunk
ImgEventListener_ForwardsBuffer(p, msg) ==
    IF msg.id # p.id THEN p
    ELSE CASE msg.type = RESULT ->
                LET q == [p EXCEPT !.result = Some(msg.msg)]
                IN  IF q.onResult # NoFn THEN ImgOnResult(q, msg.msg) ELSE q
           [] msg.type = STDOUT ->
                LET q == [p EXCEPT !.output = @ \o msg.msg]
                IN  IF q.onOutput # NoFn
                    THEN [q EXCEPT !.calls = Append(@, OutCall(q.onOutput, q.output))]
                    ELSE q
           [] msg.type \in {STDERR, EXCEPTION} ->
                LET q == [p EXCEPT !.error = @ \o msg.msg]
                IN  IF q.onError # NoFn
                    THEN [q EXCEPT !.calls = Append(@, ErrCall(q.onError, q.error))]
                    ELSE q
           [] OTHER -> p

\* this.eventListener treating an Exception envelope as the end of the run
ImgEventListener_ExceptionEnds(p, msg) ==
    IF msg.id # p.id THEN p
    ELSE CASE msg.type \in {RESULT, EXCEPTION} ->
                LET q == [p EXCEPT !.result = Some(msg.msg)]
                IN  IF q.onResult # NoFn THEN ImgOnResult(q, msg.msg) ELSE q
           [] msg.type = STDOUT ->
                LET q == [p EXCEPT !.output = @ \o msg.msg]
                IN  IF q.onOutput # NoFn
                    THEN [q EXCEPT !.calls = Append(@, OutCall(q.onOutput, msg.msg))]
                    ELSE q
           [] msg.type = STDERR ->
                LET q == [p EXCEPT !.error = @ \o msg.msg]
                IN  IF q.onError # NoFn
                    THEN [q EXCEPT !.calls = Append(@, ErrCall(q.onError, msg.msg))]
                    ELSE q
           [] OTHER -> p

\* this.eventListener
ImgEventListener(p, msg) ==
    IF msg.id # p.id THEN p
    ELSE CASE msg.type = RESULT ->
                LET q == [p EXCEPT !.result = Some(msg.msg)]
                IN  IF q.onResult # NoFn THEN ImgOnResult(q, msg.msg) ELSE q
           [] msg.type = STDOUT ->
                LET q == [p EXCEPT !.output = @ \o msg.msg]
                IN  IF q.onOutput # NoFn
                    THEN [q EXCEPT !.calls = Append(@, OutCall(q.onOutput, msg.msg))]
                    ELSE q
           [] msg.type \in {STDERR, EXCEPTION} ->
                LET q == [p EXCEPT !.error = @ \o msg.msg]
                IN  IF q.onError # NoFn
                    THEN [q EXCEPT !.calls = Append(@, ErrCall(q.onError, msg.msg))]
                    ELSE q
           [] OTHER -> p

\* onStdout without the replay of the buffer
ImgOnStdout_NoReplay(p, fn) == [p EXCEPT !.onOutput = fn]

ImgOnStdout(p, fn) ==
    LET q == [p EXCEPT !.onOutput = fn]
    IN  IF q.output # ""
        THEN [q EXCEPT !.calls = Append(@, OutCall(fn, q.output))]
        ELSE q

ImgOnStderr(p, fn) ==
    LET q == [p EXCEPT !.onError = fn]
    IN  IF q.error # ""
        THEN [q EXCEPT !.calls = Append(@, ErrCall(fn, q.error))]
        ELSE q

\* kill() synthesizing an empty result, as RunpyProcess does
ImgKill_Synthesizes(p) ==
    LET q == [p EXCEPT !.killCalled = TRUE]
    IN  IF q.onResult # NoFn THEN ImgOnResult(q, "") ELSE q

\* kill(), the fields of the object: none changes (the listener is removed by the action)
ImgKill(p) == [p EXCEPT !.killCalled = TRUE]

ImgOnExit(p, fn) ==
    LET q == [p EXCEPT !.onResult = fn]
    IN  IF Truthy(q.result) THEN ImgOnResult(q, q.result[1]) ELSE q

(***************************************************************************)
(* class SynthProcess: every method has an empty body                      *)
(***************************************************************************)
SynthOnStdout(p, fn) == p
SynthOnStderr(p, fn) == p
SynthKill(p) == [p EXCEPT !.killCalled = TRUE]
SynthOnExit(p, fn) == p

(***************************************************************************)
(* Dispatch on the class of the object.                                    *)
(***************************************************************************)
EventListener(p, msg) ==
    CASE p.kind = "runpy" -> RunpyEventListener(p, msg)
      [] p.kind = "imgsum" -> ImgEventListener(p, msg)
      [] OTHER -> p

onStdout(p, fn) ==
    CASE p.kind = "runpy" -> RunpyOnStdout(p, fn)
      [] p.kind = "imgsum" -> ImgOnStdout(p, fn)
      [] OTHER -> SynthOnStdout(p, fn)

onStderr(p, fn) ==
    CASE p.kind = "runpy" -> RunpyOnStderr(p, fn)
      [] p.kind = "imgsum" -> ImgOnStderr(p, fn)
      [] OTHER -> SynthOnStderr(p, fn)

kill(p) ==
    CASE p.kind = "runpy" -> RunpyKill(p)
      [] p.kind = "imgsum" -> ImgKill(p)
      [] OTHER -> SynthKill(p)

onExit(p, fn) ==
    CASE p.kind = "runpy" -> RunpyOnExit(p, fn)
      [] p.kind = "imgsum" -> ImgOnExit(p, fn)
      [] OTHER -> SynthOnExit(p, fn)

(***************************************************************************)
(* Helpers over the state.                                                 *)
(***************************************************************************)
\* the exit invocations in a log
ExitCalls(log) == SelectSeq(log, LAMBDA c : c.obs = "exit")

\* the invocations of the bootstrap callback in a log
BootCalls(log) == SelectSeq(log, LAMBDA c : c.obs = "exit" /\ c.fn = BootFn)

RECURSIVE SumBootCalls(_, _)
SumBootCalls(ps, i) ==
    IF i = 0 THEN 0 ELSE Len(BootCalls(ps[i].calls)) + SumBootCalls(ps, i - 1)

\* the body of the bootstrap callback runs once per invocation:
\* the controller's runProgram() calls after a step from ps to qs
Notified(ps, qs) == notified + SumBootCalls(qs, Len(qs)) - SumBootCalls(ps, Len(ps))

\* history: the invocations process q made beyond those of p are marked with
\* the operation or the kind of envelope that caused them
Stamp(p, q, by) ==
    [q EXCEPT !.calls =
        [k \in 1 .. Len(q.calls) |->
            IF k <= Len(p.calls) THEN q.calls[k] ELSE q.calls[k] @@ ("by" :> by)]]

ByType(t) ==
    CASE t = STDOUT -> "Stdout" [] t = STDERR -> "Stderr" [] t = RESULT -> "Result"
      [] t = EXCEPTION -> "Exception" [] t = ERROR -> "Error" [] OTHER -> "Loaded"

\* the worker answers requests only: ids it may tag an envelope with
PostedIds(reqs) == {reqs[i].id : i \in 1 .. Len(reqs)}

\* nothing delivered yet for a request
NoneSent == [out |-> "", err |-> "", result |-> Undefined]

\* history: what was delivered for each id, after envelope msg
Sent(old, ids, msg) ==
    [id \in ids |->
        LET h == IF id \in DOMAIN old THEN old[id] ELSE NoneSent
        IN  IF msg.id # id THEN h
            ELSE CASE msg.type = STDOUT -> [h EXCEPT !.out = @ \o msg.msg]
                   [] msg.type \in {STDERR, EXCEPTION} -> [h EXCEPT !.err = @ \o msg.msg]
                   [] msg.type = RESULT -> [h EXCEPT !.result = Some(msg.msg)]
                   [] OTHER -> h]

\* an envelope that is no answer to a request
NoMsg == PyodideWorkerResponse(NoId, ERROR, "")

\* envelopes the worker may deliver next: the two lifecycle kinds, and for
\* every request posted the four kinds of answer, a Result at most once
Envelopes ==
    {PyodideWorkerResponse(NoId, t, "") : t \in {LOADED, ERROR}}
    \cup {PyodideWorkerResponse(id, t, m) :
             id \in DOMAIN sent, t \in {STDOUT, STDERR, EXCEPTION}, m \in Texts}
    \cup {PyodideWorkerResponse(id, RESULT, m) :
             id \in {j \in DOMAIN sent : sent[j].result = Undefined}, m \in Texts}

\* room for one more process; one place is kept for the bootstrap process
\* for as long as the init listener may still create it
Room == Len(procs) + (IF InitL \in listeners THEN 1 ELSE 0) < MaxProcs

\* one more step, while the budget of steps lasts
Tick == steps < MaxSteps /\ steps' = steps + 1

(***************************************************************************)
(* Initial state: the module was loaded, the worker started and the init   *)
(* listener registered.                                                    *)
(***************************************************************************)
Init ==
    /\ next = 0
    /\ pyodideLoaded = FALSE
    /\ listeners = {InitL}
    /\ procs = <<>>
    /\ posted = <<>>
    /\ sent = <<>>
    /\ lifecycle = [loaded |-> 0, rejected |-> 0]
    /\ notified = 0
    /\ steps = 0

(***************************************************************************)
(* Constructors and factories: the state after the call ran in state st,   *)
(* a record of next, pyodideLoaded, listeners, procs and posted.           *)
(***************************************************************************)
NewRunpyProcess(st) ==
    LET g == getId(st.next)
        i == Len(st.procs) + 1
    IN  [st EXCEPT !.next = g.next,
                   !.procs = Append(@, NewProcess("runpy", g.id)),
                   !.listeners = @ \cup {i},
                   !.posted = Append(@, RunpyWorkerRequest(g.id))]

\* the constructor posting its request a second time
NewImgSummaryProcess_PostsTwice(st) ==
    LET g == getId(st.next)
        i == Len(st.procs) + 1
    IN  [st EXCEPT !.next = g.next,
                   !.procs = Append(@, NewProcess("imgsum", g.id)),
                   !.listeners = @ \cup {i},
                   !.posted = @ \o <<ImgSumWorkerRequest(g.id), ImgSumWorkerRequest(g.id)>>]

NewImgSummaryProcess(st) ==
    LET g == getId(st.next)
        i == Len(st.procs) + 1
    IN  [st EXCEPT !.next = g.next,
                   !.procs = Append(@, NewProcess("imgsum", g.id)),
                   !.listeners = @ \cup {i},
                   !.posted = Append(@, ImgSumWorkerRequest(g.id))]

NewSynthProcess(st) ==
    [st EXCEPT !.procs = Append(@, NewProcess("synth", NoId))]

\* runProgram without the test of pyodideLoaded
runProgram_Ungated(st) == NewRunpyProcess(st)

\* runProgram(program); saveProgram(program) only sends the text to the
\* server and touches none of this state
runProgram(st) ==
    IF ~st.pyodideLoaded THEN NewSynthProcess(st) ELSE NewRunpyProcess(st)

\* runImgSummary(program, line, varname)
runImgSummary(st) ==
    IF ~st.pyodideLoaded THEN NewSynthProcess(st) ELSE NewImgSummaryProcess(st)

\* synthesizeSnippet(problem)
synthesizeSnippet(st) == NewSynthProcess(st)

\* the init listener that stays registered after LOADED
pyodideWorkerInitListener_StaysRegistered(st, msg) ==
    IF msg.type = LOADED
    THEN LET s1 == [st EXCEPT !.pyodideLoaded = TRUE]
             s2 == runProgram(s1)
             b  == Len(s2.procs)
         IN  [s2 EXCEPT !.procs[b] = onExit(s2.procs[b], BootFn)]
    ELSE st

\* the init listener that attaches no exit observer to the bootstrap process
pyodideWorkerInitListener_NoOnExit(st, msg) ==
    IF msg.type = LOADED
    THEN runProgram([st EXCEPT !.pyodideLoaded = TRUE, !.listeners = @ \ {InitL}])
    ELSE st

\* pyodideWorkerInitListener
pyodideWorkerInitListener(st, msg) ==
    IF msg.type = LOADED
    THEN LET s1 == [st EXCEPT !.pyodideLoaded = TRUE, !.listeners = @ \ {InitL}]
             s2 == runProgram(s1)
             b  == Len(s2.procs)
         IN  [s2 EXCEPT !.procs[b] = onExit(s2.procs[b], BootFn)]
    ELSE st

\* the factory's return value reaches the host, which keeps the reference
Returned(st) == [st EXCEPT !.procs[Len(st.procs)].held = TRUE]

\* the processes the host holds a reference to; the process the init
\* listener creates is referenced by its own listener only
Held == {i \in 1 .. Len(procs) : procs[i].held}

\* history: the lifecycle envelopes counted, after envelope msg was
\* delivered with the init listener registered or not
Lifecycle(old, msg, init) ==
    CASE msg.type = LOADED -> [old EXCEPT !.loaded = @ + 1]
      [] init -> [old EXCEPT !.rejected = @ + 1]
      [] OTHER -> old

Here == [next |-> next, pyodideLoaded |-> pyodideLoaded, listeners |-> listeners,
         procs |-> procs, posted |-> posted]

Install(st) ==
    /\ next' = st.next
    /\ pyodideLoaded' = st.pyodideLoaded
    /\ listeners' = st.listeners
    /\ procs' = st.procs
    /\ posted' = st.posted
    /\ notified' = Notified(procs, st.procs)

(***************************************************************************)
(* Actions of the host.                                                    *)
(***************************************************************************)
RunProgram ==
    /\ Room
    /\ Tick
    /\ Install(Returned(runProgram(Here)))
    /\ sent' = Sent(sent, PostedIds(posted'), NoMsg)
    /\ UNCHANGED lifecycle

RunImgSummary ==
    /\ Room
    /\ Tick
    /\ Install(Returned(runImgSummary(Here)))
    /\ sent' = Sent(sent, PostedIds(posted'), NoMsg)
    /\ UNCHANGED lifecycle

SynthesizeSnippet ==
    /\ Room
    /\ Tick
    /\ Install(Returned(synthesizeSnippet(Here)))
    /\ UNCHANGED <<sent, lifecycle>>

OnStdout(i, fn) ==
    /\ Tick
    /\ Install([Here EXCEPT !.procs[i] = Stamp(@, onStdout(@, fn), "onStdout")])
    /\ UNCHANGED <<sent, lifecycle>>

OnStderr(i, fn) ==
    /\ Tick
    /\ Install([Here EXCEPT !.procs[i] = Stamp(@, onStderr(@, fn), "onStderr")])
    /\ UNCHANGED <<sent, lifecycle>>

OnExit(i, fn) ==
    /\ Tick
    /\ Install([Here EXCEPT !.procs[i] = Stamp(@, onExit(@, fn), "onExit")])
    /\ UNCHANGED <<sent, lifecycle>>

\* kill() removing every listener from the worker
Kill_RemovesEveryListener(i) ==
    /\ Tick
    /\ Install([Here EXCEPT !.procs[i] = Stamp(@, kill(@), "kill"),
                            !.listeners = IF procs[i].kind = "synth" THEN @ ELSE {}])
    /\ UNCHANGED <<sent, lifecycle>>

\* kill() leaving the listener registered
Kill_KeepsListener(i) ==
    /\ Tick
    /\ Install([Here EXCEPT !.procs[i] = Stamp(@, kill(@), "kill")])
    /\ UNCHANGED <<sent, lifecycle>>

\* kill(): removeEventListener of the object's own listener, and the fields
Kill(i) ==
    /\ Tick
    /\ Install([Here EXCEPT !.procs[i] = Stamp(@, kill(@), "kill"),
                            !.listeners = IF procs[i].kind = "synth" THEN @ ELSE @ \ {i}])
    /\ UNCHANGED <<sent, lifecycle>>

(***************************************************************************)
(* The worker delivers one 'message' event: every listener registered when *)
(* the dispatch starts is run on it, in registration order.                *)
(***************************************************************************)
Dispatch(st, msg) ==
    LET atStart == st.listeners
        \* the init listener, when registered, was registered first
        s1 == IF InitL \in atStart THEN pyodideWorkerInitListener(st, msg) ELSE st
    IN  \* then the listeners of the processes
        [s1 EXCEPT !.procs =
            [i \in 1 .. Len(s1.procs) |->
                IF i \in atStart
                THEN Stamp(s1.procs[i], EventListener(s1.procs[i], msg), ByType(msg.type))
                ELSE s1.procs[i]]]

Deliver(msg) ==
    /\ Tick
    /\ Install(Dispatch(Here, msg))
    /\ sent' = Sent(sent, PostedIds(posted'), msg)
    /\ lifecycle' = Lifecycle(lifecycle, msg, InitL \in listeners)

Next ==
    \/ RunProgram
    \/ RunImgSummary
    \/ SynthesizeSnippet
    \/ \E i \in Held, fn \in Fns : OnStdout(i, fn)
    \/ \E i \in Held, fn \in Fns : OnStderr(i, fn)
    \/ \E i \in Held, fn \in Fns : OnExit(i, fn)
    \/ \E i \in Held : Kill(i)
    \/ \E msg \in Envelopes : Deliver(msg)

Spec == Init /\ [][Next]_vars

(***************************************************************************)
(* The same program from a later state: the engine has loaded and the host *)
(* has called runProgram once, so that the bootstrap process and one       *)
(* run-program process of the host exist.  No further process is created;  *)
(* MaxRunSteps steps are explored from this state.                         *)
(***************************************************************************)
Loaded0 ==
    Dispatch([next |-> 0, pyodideLoaded |-> FALSE, listeners |-> {InitL},
              procs |-> <<>>, posted |-> <<>>],
             PyodideWorkerResponse(NoId, LOADED, ""))

InitRun ==
    LET st == Returned(runProgram(Loaded0))
    IN  /\ next = st.next
        /\ pyodideLoaded = st.pyodideLoaded
        /\ listeners = st.listeners
        /\ procs = st.procs
        /\ posted = st.posted
        /\ sent = [id \in PostedIds(st.posted) |-> NoneSent]
        /\ lifecycle = [loaded |-> 1, rejected |-> 0]
        /\ notified = 0
        /\ steps = MaxSteps - MaxRunSteps

NextRun ==
    \/ \E i \in Held, fn \in Fns : OnStdout(i, fn)
    \/ \E i \in Held, fn \in Fns : OnStderr(i, fn)
    \/ \E i \in Held, fn \in Fns : OnExit(i, fn)
    \/ \E i \in Held : Kill(i)
    \/ \E msg \in Envelopes : Deliver(msg)

SpecRun == InitRun /\ [][NextRun]_vars

(***************************************************************************)
(* Vocabulary of the properties.                                           *)
(***************************************************************************)
Procs == 1 .. Len(procs)

\* a run-program or image-summary process, not the placeholder
Real(i) == procs[i].kind \in {"runpy", "imgsum"}

\* its eventListener is registered on the worker
Live(i) == i \in listeners

\* the invocations a step appended to the log of process i
NewCalls(i) == SubSeq(procs'[i].calls, Len(procs[i].calls) + 1, Len(procs'[i].calls))

\* the exit invocations that no registration made: those made by an
\* envelope or by kill()
Fired(log) == SelectSeq(log, LAMBDA c : c.obs = "exit" /\ c.by # "onExit")

\* indices of the entries of a log with a given observer
At(log, obs) == {k \in 1 .. Len(log) : log[k].obs = obs}

(***************************************************************************)
(* C1.  Delivering an envelope tagged with the id of one real process      *)
(* leaves the stdout buffer, the stderr buffer and the stored result of    *)
(* every real process with another id unchanged, and invokes none of its   *)
(* observers.                                                              *)
(***************************************************************************)
C1_OtherIdUntouched ==
    [][\A a \in Procs, b \in Procs :
          (Real(a) /\ Real(b) /\ procs[a].id # procs[b].id)
          => \/ /\ procs'[b].output = procs[b].output
                /\ procs'[b].error = procs[b].error
                /\ procs'[b].result = procs[b].result
                /\ procs'[b].calls = procs[b].calls
             \/ \A msg \in {e \in Envelopes : e.id = procs[a].id} : ~Deliver(msg)]_vars

\* two live real processes with exit observers; one has received output
\* and its Result, the other has received nothing
C1_Witness ==
    \E a \in Procs, b \in Procs :
        /\ Real(a) /\ Real(b) /\ Live(a) /\ Live(b)
        /\ procs[a].id # procs[b].id
        /\ procs[a].output # "" /\ procs[a].result # Undefined
        /\ procs[a].onResult # NoFn /\ procs[b].onResult # NoFn
        /\ procs[b].output = "" /\ procs[b].result = Undefined /\ procs[b].calls = <<>>

(***************************************************************************)
(* C2.  A real process whose exit observer was registered when its Result  *)
(* envelope arrived has that observer invoked exactly once over its        *)
(* lifetime, at the delivery and with the text of the envelope: neither    *)
(* kill() nor a later envelope invokes it again.                           *)
(***************************************************************************)
C2_ExitExactlyOnce ==
    \A i \in Procs :
        (Real(i) /\ \E k \in 1 .. Len(procs[i].calls) :
                        procs[i].calls[k].obs = "exit" /\ procs[i].calls[k].by = "Result")
        => /\ Len(Fired(procs[i].calls)) = 1
           /\ Fired(procs[i].calls)[1].by = "Result"
           /\ Some(Fired(procs[i].calls)[1].data) = procs[i].result

(***************************************************************************)
(* C3.  On a real process that has received its Result envelope, whatever  *)
(* its text, onExit(fn) invokes fn within the call, with the stored text.  *)
(***************************************************************************)
C3_LateExitObserverFires ==
    [][\A i \in Procs : \A fn \in Fns :
          (OnExit(i, fn) /\ Real(i) /\ procs[i].result # Undefined)
          => /\ Len(NewCalls(i)) >= 1
             /\ LET c == NewCalls(i)[Len(NewCalls(i))]
                IN  c.obs = "exit" /\ c.fn = fn /\ c.data = procs[i].result[1]]_vars

(***************************************************************************)
(* C4.  While the readiness flag is false runProgram and runImgSummary     *)
(* return the placeholder: the call posts no request, registers no         *)
(* listener and takes no id; and no observer of a placeholder is ever      *)
(* invoked, whatever is registered on it, killed or delivered later.       *)
(***************************************************************************)
C4_PlaceholderInert ==
    /\ [][(~pyodideLoaded /\ (RunProgram \/ RunImgSummary))
          => /\ posted' = posted /\ listeners' = listeners /\ next' = next
             /\ Len(procs') = Len(procs) + 1
             /\ procs'[Len(procs')].kind = "synth"]_vars
    /\ [](\A i \in Procs :
            procs[i].kind = "synth"
            => /\ procs[i].calls = <<>>
               /\ ~Live(i)
               /\ procs[i].id \notin DOMAIN sent)

\* a placeholder made before readiness was killed, and later the engine
\* loaded and a Result envelope was delivered
C4_Witness ==
    /\ pyodideLoaded
    /\ posted # <<>>
    /\ procs[1].kind = "synth" /\ procs[1].killCalled
    /\ \E id \in DOMAIN sent : sent[id].result # Undefined

(***************************************************************************)
(* C5.  On a run-program process the delivery of a Stdout, Stderr or       *)
(* Exception envelope invokes no observer; the stdout and stderr observers *)
(* are invoked only within a firing of the exit observer, that is right    *)
(* before an invocation of the exit callback.                              *)
(***************************************************************************)
C5_RunpyOutputWithheld ==
    /\ [][\A i \in Procs :
            procs[i].kind = "runpy"
            => \/ procs'[i].calls = procs[i].calls
               \/ \A msg \in {e \in Envelopes : e.type \in {STDOUT, STDERR, EXCEPTION}} :
                     ~Deliver(msg)]_vars
    /\ [](\A i \in Procs :
            procs[i].kind = "runpy"
            => LET log == procs[i].calls
               IN  /\ \A k \in At(log, "stdout") :
                        /\ log[k].by \in {"Result", "kill", "onExit"}
                        /\ k < Len(log)
                        /\ \/ log[k + 1].obs = "exit"
                           \/ /\ log[k + 1].obs = "stderr"
                              /\ k + 1 < Len(log)
                              /\ log[k + 2].obs = "exit"
                   /\ \A k \in At(log, "stderr") :
                        /\ log[k].by \in {"Result", "kill", "onExit"}
                        /\ k < Len(log)
                        /\ log[k + 1].obs = "exit")

\* a run-program process received output while a stdout observer was
\* registered, and no observer has been invoked
C5_Witness ==
    \E i \in Procs :
        /\ procs[i].kind = "runpy" /\ Live(i)
        /\ procs[i].onOutput # NoFn
        /\ procs[i].output # ""
        /\ procs[i].calls = <<>>

(***************************************************************************)
(* C6.  On an image-summary process that was not killed: a Stdout envelope *)
(* with its id delivered while a stdout observer is registered invokes     *)
(* that observer, during the delivery, with the text of the envelope; and  *)
(* onStdout(fn) while the stdout buffer is not empty invokes fn within the *)
(* call with the whole buffer.  Likewise Stderr and Exception envelopes    *)
(* and onStderr.                                                           *)
(***************************************************************************)
C6_ImgOutputStreamed ==
    [][\A i \in Procs :
          (procs[i].kind = "imgsum" /\ ~procs[i].killCalled)
          => /\ procs[i].onOutput # NoFn
                => \A msg \in {e \in Envelopes : e.id = procs[i].id /\ e.type = STDOUT} :
                      \/ NewCalls(i) = <<[obs |-> "stdout", fn |-> procs[i].onOutput,
                                          data |-> msg.msg, by |-> "Stdout"]>>
                      \/ ~Deliver(msg)
             /\ procs[i].onError # NoFn
                => \A msg \in {e \in Envelopes : e.id = procs[i].id
                                                 /\ e.type \in {STDERR, EXCEPTION}} :
                      \/ NewCalls(i) = <<[obs |-> "stderr", fn |-> procs[i].onError,
                                          data |-> msg.msg, by |-> ByType(msg.type)]>>
                      \/ ~Deliver(msg)
             /\ procs[i].output # ""
                => \A fn \in Fns :
                      \/ NewCalls(i) = <<[obs |-> "stdout", fn |-> fn,
                                          data |-> procs[i].output, by |-> "onStdout"]>>
                      \/ ~OnStdout(i, fn)
             /\ procs[i].error # ""
                => \A fn \in Fns :
                      \/ NewCalls(i) = <<[obs |-> "stderr", fn |-> fn,
                                          data |-> procs[i].error, by |-> "onStderr"]>>
                      \/ ~OnStderr(i, fn)]_vars

\* an image-summary process replayed its buffer to a stdout observer at
\* registration and then forwarded a later envelope to it
C6_Witness ==
    \E i \in Procs :
        /\ procs[i].kind = "imgsum" /\ ~procs[i].killCalled
        /\ \E k \in 1 .. Len(procs[i].calls) - 1 :
              /\ procs[i].calls[k].by = "onStdout"
              /\ procs[i].calls[k + 1].by = "Stdout"
              /\ procs[i].calls[k + 1].data # ""

(***************************************************************************)
(* C7.  On a run-program process with an exit observer and no Result       *)
(* received, kill() invokes the exit observer with status null and empty   *)
(* text, and over the lifetime of the process the exit observer is         *)
(* invoked exactly once.                                                   *)
(***************************************************************************)
C7_KillFiresExitOnce ==
    \A i \in Procs :
        (/\ procs[i].kind = "runpy"
         /\ procs[i].result = Undefined
         /\ procs[i].killCalled
         \* the exit observer was registered when kill() was called
         /\ \E k \in At(procs[i].calls, "exit") : procs[i].calls[k].by = "kill")
        => /\ Len(Fired(procs[i].calls)) = 1
           /\ Fired(procs[i].calls)[1].status = StatusNull
           /\ Fired(procs[i].calls)[1].data = ""

(***************************************************************************)
(* C8.  On an image-summary process, once kill() was called the exit       *)
(* observer is never invoked: not by the kill, not by a later envelope,    *)
(* not by a registration after the kill.                                   *)
(***************************************************************************)
C8_ImgKilledNeverExits ==
    [][\A i \in Procs :
          (procs[i].kind = "imgsum" /\ procs'[i].killCalled)
          => At(NewCalls(i), "exit") = {}]_vars

\* C8 as amended: kill() invokes no observer and no envelope delivered
\* after the kill does; onExit(fn) after the kill invokes fn exactly when a
\* non-empty Result was stored before the kill, and then with that text.
C8_ImgKilledExitsOnlyOnStoredResult ==
    [][\A i \in Procs :
          (procs[i].kind = "imgsum" /\ procs'[i].killCalled)
          => /\ ~procs[i].killCalled => NewCalls(i) = <<>>
             /\ \A msg \in Envelopes : Deliver(msg) => NewCalls(i) = <<>>
             /\ \A fn \in Fns :
                  (OnExit(i, fn) /\ procs[i].killCalled)
                  => IF Truthy(procs[i].result)
                     THEN NewCalls(i) = <<[obs |-> "exit", fn |-> fn, status |-> StatusOk,
                                           data |-> procs[i].result[1], by |-> "onExit"]>>
                     ELSE NewCalls(i) = <<>>
             /\ At(NewCalls(i), "exit") # {}
                  => Truthy(procs[i].result) /\ procs[i].killCalled]_vars

\* an image-summary process with an exit observer was killed before its
\* Result was delivered, and the Result came afterwards
C8_Witness ==
    \E i \in Procs :
        /\ procs[i].kind = "imgsum" /\ procs[i].killCalled
        /\ procs[i].onResult # NoFn
        /\ procs[i].result = Undefined
        /\ sent[procs[i].id].result # Undefined
        /\ procs[i].calls = <<>>

(***************************************************************************)
(* C9.  At every state the stdout buffer of each live real process is the  *)
(* concatenation, in delivery order, of the texts of the Stdout envelopes  *)
(* with its id delivered so far, its stderr buffer that of the Stderr and  *)
(* Exception envelopes, and its result is set only if a Result envelope    *)
(* with its id was delivered.                                              *)
(***************************************************************************)
C9_OwnOutputOnly ==
    \A i \in Procs :
        Real(i)
        => /\ procs[i].id \in DOMAIN sent
           /\ Live(i) => /\ procs[i].output = sent[procs[i].id].out
                         /\ procs[i].error = sent[procs[i].id].err
           /\ procs[i].result # Undefined => procs[i].result = sent[procs[i].id].result

\* two live processes received interleaved output: one two chunks, in
\* order, the other one chunk
C9_Witness ==
    \E a \in Procs, b \in Procs :
        /\ a # b /\ Real(a) /\ Real(b) /\ Live(a) /\ Live(b)
        /\ procs[a].output = "ab"
        /\ procs[b].output = "b"

(***************************************************************************)
(* C10.  getId returns 0 on its first call and a larger value on every     *)
(* later call: the first real process has id 0 and the ids of the real     *)
(* processes, of either class, strictly increase in construction order.    *)
(***************************************************************************)
C10_IdsIncrease ==
    /\ \A i \in Procs :
          (Real(i) /\ \A j \in 1 .. i - 1 : ~Real(j)) => procs[i].id = 0
    /\ \A i \in Procs, j \in Procs :
          (Real(i) /\ Real(j) /\ i < j) => procs[i].id < procs[j].id
    /\ \A i \in Procs : Real(i) => procs[i].id < next

\* a run-program and an image-summary process were constructed
C10_Witness ==
    \E i \in Procs, j \in Procs :
        /\ i < j
        /\ procs[i].kind = "runpy" /\ procs[j].kind = "imgsum"

(***************************************************************************)
(* C11.  The readiness flag is false at first, becomes true only when the  *)
(* init listener handles a LOADED envelope and is never false again; the   *)
(* init listener is removed at that step, so a later LOADED envelope       *)
(* changes nothing and the bootstrap process is created at most once; an   *)
(* envelope of another kind before LOADED leaves the flag false.           *)
(***************************************************************************)
\* the processes the init listener created
Bootstraps == {i \in Procs : Real(i) /\ ~procs[i].held}

C11_ReadinessOneShot ==
    /\ [](/\ pyodideLoaded <=> InitL \notin listeners
          /\ pyodideLoaded <=> lifecycle.loaded >= 1
          /\ Cardinality(Bootstraps) = IF pyodideLoaded THEN 1 ELSE 0)
    /\ [][/\ pyodideLoaded => pyodideLoaded'
          /\ InitL \notin listeners => InitL \notin listeners'
          /\ (~pyodideLoaded /\ pyodideLoaded')
             => /\ lifecycle'.loaded = 1
                /\ InitL \notin listeners'
                /\ Len(procs') = Len(procs) + 1
                /\ procs'[Len(procs')].kind = "runpy"
          /\ (pyodideLoaded /\ lifecycle'.loaded > lifecycle.loaded)
             => UNCHANGED <<next, pyodideLoaded, listeners, procs, posted, notified>>
          /\ lifecycle'.rejected > lifecycle.rejected
             => ~pyodideLoaded' /\ InitL \in listeners' /\ procs' = procs]_vars

\* an envelope of another kind came first, then LOADED twice
C11_Witness ==
    /\ pyodideLoaded
    /\ lifecycle.rejected >= 1
    /\ lifecycle.loaded >= 2

(***************************************************************************)
(* C12.  Once a real process has received its Result envelope its listener *)
(* is no longer registered on the worker, and no envelope delivered        *)
(* afterwards changes its buffers or its stored result.                    *)
(***************************************************************************)
C12_ListenerGoneAfterResult ==
    /\ [](\A i \in Procs : (Real(i) /\ procs[i].result # Undefined) => ~Live(i))
    /\ [][\A i \in Procs :
            (Real(i) /\ procs[i].result # Undefined)
            => \/ /\ procs'[i].output = procs[i].output
                  /\ procs'[i].error = procs[i].error
                  /\ procs'[i].result = procs[i].result
               \/ \A msg \in Envelopes : ~Deliver(msg)]_vars

(***************************************************************************)
(* C13.  Whenever an exit observer is invoked with (status, text), status  *)
(* is 0 if and only if text is not empty; otherwise status is null on a    *)
(* run-program process and 1 on an image-summary process.                  *)
(***************************************************************************)
C13_ExitStatus ==
    \A i \in Procs : \A k \in At(procs[i].calls, "exit") :
        LET c == procs[i].calls[k]
        IN  /\ c.status = StatusOk <=> c.data # ""
            /\ c.data = "" => c.status = IF procs[i].kind = "runpy" THEN StatusNull
                                         ELSE StatusFail

\* both failure statuses have been reported
C13_Witness ==
    /\ \E i \in Procs : \E k \in At(procs[i].calls, "exit") :
          procs[i].kind = "runpy" /\ procs[i].calls[k].status = StatusNull
    /\ \E i \in Procs : \E k \in At(procs[i].calls, "exit") :
          procs[i].kind = "imgsum" /\ procs[i].calls[k].status = StatusFail

(***************************************************************************)
(* C14.  After the init listener handled LOADED there is a run-program     *)
(* process, created by it, with the bootstrap callback as exit observer;   *)
(* and once the worker has delivered a Result envelope with the id of     *)
(* that process, the controller's runProgram() has been called: the call   *)
(* is made within the delivery, so it waits for no further step.           *)
(***************************************************************************)
C14_BootstrapNotifies ==
    /\ pyodideLoaded
       => \E i \in Bootstraps :
             /\ procs[i].kind = "runpy"
             /\ procs[i].onResult = BootFn
             /\ Live(i)
    /\ (\E i \in Bootstraps : sent[procs[i].id].result # Undefined) => notified >= 1

\* the Result of the bootstrap process was delivered and the controller
\* was notified
C14_Witness ==
    \E i \in Bootstraps :
        /\ sent[procs[i].id].result # Undefined
        /\ notified = 1
        /\ Len(procs[i].calls) = 1 /\ procs[i].calls[1].fn = BootFn

(***************************************************************************)
(* C15.  kill() on a real process removes the listener of that process     *)
(* only: the listeners, buffers, results and observers of all other        *)
(* processes stay as they are, none of their observers is invoked, and     *)
(* the readiness flag and the id counter do not change.                    *)
(***************************************************************************)
C15_KillIsLocal ==
    [][\A i \in Procs :
          Real(i)
          => \/ /\ listeners' = listeners \ {i}
                /\ \A j \in Procs \ {i} : procs'[j] = procs[j]
                /\ Len(procs') = Len(procs)
                /\ UNCHANGED <<pyodideLoaded, next, posted>>
             \/ ~Kill(i)]_vars

\* a real process was killed while another one, which has received output
\* and has an exit observer, is still listening
C15_Witness ==
    \E i \in Procs, j \in Procs :
        /\ i # j /\ Real(i) /\ Real(j)
        /\ procs[i].killCalled /\ ~Live(i)
        /\ Live(j) /\ procs[j].output # "" /\ procs[j].onResult # NoFn

(***************************************************************************)
(* C16.  After kill() on a real process no envelope delivered later, not   *)
(* even one with the id of the process, changes its buffers or its result  *)
(* or invokes any of its observers.                                        *)
(***************************************************************************)
C16_KilledIgnoresEnvelopes ==
    [][\A i \in Procs :
          (Real(i) /\ procs[i].killCalled)
          => \/ procs'[i] = procs[i]
             \/ \A msg \in Envelopes : ~Deliver(msg)]_vars

\* an image-summary process with a stdout observer was killed, and output
\* with its id was delivered afterwards
C16_Witness ==
    \E i \in Procs :
        /\ procs[i].kind = "imgsum" /\ procs[i].killCalled
        /\ procs[i].onOutput # NoFn
        /\ sent[procs[i].id].out # ""
        /\ procs[i].output = "" /\ procs[i].calls = <<>>

(***************************************************************************)
(* C17.  Each time the exit observer of a run-program process fires, the   *)
(* stdout observer, if registered, is invoked first with the whole stdout  *)
(* buffer, then the stderr observer, if registered, with the whole stderr  *)
(* buffer, and then the exit callback; and the text handed to the stdout   *)
(* observer is the concatenation of all Stdout envelopes with the id of    *)
(* the process delivered before the firing.                                *)
(***************************************************************************)
Proj(c) == [obs |-> c.obs, fn |-> c.fn, data |-> c.data]

\* what a firing on process i invokes before the exit callback
Handed(i) ==
    (IF procs[i].onOutput # NoFn
     THEN <<[obs |-> "stdout", fn |-> procs[i].onOutput, data |-> procs[i].output]>>
     ELSE <<>>)
    \o (IF procs[i].onError # NoFn
        THEN <<[obs |-> "stderr", fn |-> procs[i].onError, data |-> procs[i].error]>>
        ELSE <<>>)

\* the invocations a step made on process i are those of one firing, or none
OneFiring(i) ==
    LET n == NewCalls(i)
    IN  \/ n = <<>>
        \/ /\ Len(n) = Len(Handed(i)) + 1
           /\ \A k \in 1 .. Len(Handed(i)) : Proj(n[k]) = Handed(i)[k]
           /\ n[Len(n)].obs = "exit"
           /\ n[Len(n)].fn = procs'[i].onResult

C18_ExceptionNotTerminal ==
    /\ [](\A i \in Procs :
             (Real(i) /\ sent[procs[i].id].result = Undefined /\ ~procs[i].killCalled)
             => ExitCalls(procs[i].calls) = <<>>)
    /\ [][\A i \in Procs :
             Real(i)
             => \A msg \in {PyodideWorkerResponse(procs[i].id, EXCEPTION, m) : m \in Texts} :
                   \/ /\ procs'[i].result = procs[i].result
                      /\ procs'[i].output = procs[i].output
                      /\ procs'[i].error =
                            IF Live(i) THEN procs[i].error \o msg.msg ELSE procs[i].error
                      /\ NewCalls(i) =
                            IF Live(i) /\ procs[i].kind = "imgsum" /\ procs[i].onError # NoFn
                            THEN <<[obs |-> "stderr", fn |-> procs[i].onError,
                                    data |-> msg.msg, by |-> "Exception"]>>
                            ELSE <<>>
                   \* no delivery of msg: the history shows it, or Deliver does
                   \/ sent'[msg.id].err # sent[msg.id].err \o msg.msg
                   \/ steps' # steps + 1
                   \/ ~Deliver(msg)]_vars

\* an image-summary process with an exit observer and a stderr observer
\* received an Exception envelope: the text was forwarded, the exit
\* observer was not invoked
C18_Witness ==
    \E i \in Procs :
        /\ procs[i].kind = "imgsum"
        /\ procs[i].onResult # NoFn
        /\ procs[i].result = Undefined
        /\ procs[i].error # ""
        /\ \E k \in 1 .. Len(procs[i].calls) :
              procs[i].calls[k].by = "Exception" /\ procs[i].calls[k].data # ""
        /\ ExitCalls(procs[i].calls) = <<>>

(***************************************************************************)
(* C19.  The requests posted so far carry the ids 0 .. next-1, each once   *)
(* and in increasing order, and next is 0 while pyodideLoaded is false.    *)
(* Every real process has exactly one request, with its id and of its      *)
(* kind, and every request is that of a real process.  A step posts at     *)
(* most one request, only by constructing a real process, whose listener   *)
(* is registered when the request goes out; requests posted are never      *)
(* changed.                                                                *)
(***************************************************************************)
RequestsOf(i) == {k \in 1 .. Len(posted) : posted[k].id = procs[i].id}

C19_OneRequestPerProcess ==
    /\ [](/\ Len(posted) = next
          /\ \A k \in 1 .. Len(posted) : posted[k].id = k - 1
          /\ ~pyodideLoaded => next = 0
          /\ Cardinality({i \in Procs : Real(i)}) = Len(posted)
          /\ \A i \in Procs :
                Real(i)
                => /\ Cardinality(RequestsOf(i)) = 1
                   /\ \A k \in RequestsOf(i) :
                         posted[k].type = IF procs[i].kind = "runpy" THEN RUNPY ELSE IMGSUM)
    /\ [][/\ SubSeq(posted', 1, Len(posted)) = posted
          /\ Len(posted') <= Len(posted) + 1
          /\ Len(posted') = Len(posted) + 1
             => /\ Len(procs') = Len(procs) + 1
                /\ procs'[Len(procs')].kind \in {"runpy", "imgsum"}
                /\ procs'[Len(procs')].id = posted'[Len(posted')].id
                /\ Len(procs') \in listeners'
          /\ Len(posted') = Len(posted)
             => {i \in 1 .. Len(procs') : procs'[i].kind \in {"runpy", "imgsum"}}
                = {i \in Procs : Real(i)}]_vars

\* two requests were posted, the second by an image-summary process, and
\* an envelope and a kill() came after without another request
C19_Witness ==
    /\ Len(posted) = 2
    /\ posted[1].type = RUNPY
    /\ posted[2].type = IMGSUM
    /\ \E i \in Procs :
          /\ procs[i].kind = "imgsum"
          /\ procs[i].killCalled
          /\ procs[i].output # ""

(***************************************************************************)
(* C20.  For an image-summary process with a stdout observer registered,   *)
(* the concatenation, in invocation order, of all texts passed to that     *)
(* observer equals the stdout buffer; likewise the stderr observer and the *)
(* stderr buffer.                                                          *)
(***************************************************************************)
\* the texts passed to observer fn of kind obs, from entry k of a log on
RECURSIVE Passed(_, _, _, _)
Passed(log, obs, fn, k) ==
    IF k > Len(log) THEN ""
    ELSE (IF log[k].obs = obs /\ log[k].fn = fn THEN log[k].data ELSE "")
         \o Passed(log, obs, fn, k + 1)

\* the entry of the latest replay made by a registration (by onStdout or
\* onStderr); a registration makes none only while the buffer is empty, so
\* that without any replay nothing but empty texts preceded the latest
\* registration and the whole log counts
Latest(log, by) ==
    LET S == {k \in 1 .. Len(log) : log[k].by = by}
    IN  IF S = {} THEN 1 ELSE CHOOSE k \in S : \A j \in S : j <= k

C20_ObserverGotBufferOnce ==
    \A i \in Procs :
        procs[i].kind = "imgsum"
        => /\ procs[i].onOutput # NoFn
              => Passed(procs[i].calls, "stdout", procs[i].onOutput, 1) = procs[i].output
           /\ procs[i].onError # NoFn
              => Passed(procs[i].calls, "stderr", procs[i].onError, 1) = procs[i].error

\* C20 as amended: the texts passed to the observer since its latest
\* registration, the last call of onStdout (onStderr), make up the buffer;
\* every registration replays the whole buffer again.
C20_ObserverGotBufferSinceRegistration ==
    \A i \in Procs :
        procs[i].kind = "imgsum"
        => /\ procs[i].onOutput # NoFn
              => Passed(procs[i].calls, "stdout", procs[i].onOutput,
                        Latest(procs[i].calls, "onStdout")) = procs[i].output
           /\ procs[i].onError # NoFn
              => Passed(procs[i].calls, "stderr", procs[i].onError,
                        Latest(procs[i].calls, "onStderr")) = procs[i].error

\* a stdout observer was registered on a non-empty buffer, got the replay
\* and then a further chunk
C20_Witness ==
    \E i \in Procs :
        /\ procs[i].kind = "imgsum"
        /\ procs[i].onOutput # NoFn
        /\ Len(procs[i].calls) = 2
        /\ procs[i].calls[1].by = "onStdout"
        /\ procs[i].calls[2].by = "Stdout"
        /\ procs[i].calls[2].data # ""
        /\ procs[i].output = procs[i].calls[1].data \o procs[i].calls[2].data

====
